---- MODULE Spec2Model ----
(***************************************************************************)
(* A model of pylibheif's wrapper layer: the C++ classes HeifContext,      *)
(* HeifImageHandle, HeifImage, HeifPlane and HeifEncoder, the pybind11     *)
(* bindings that expose them, and the part of libheif's C ABI they call.   *)
(* libheif itself is an external collaborator: its calls are modelled by   *)
(* their documented results, chosen nondeterministically where the result  *)
(* depends on file contents or on the plugins that are installed.          *)
(***************************************************************************)
EXTENDS Integers, Sequences, FiniteSets, TLC

(***************************************************************************)
(* Bounds of the model.                                                    *)
(***************************************************************************)
MaxLen == 2        \* longest byte string handed to read_from_memory
MaxTop == 2        \* most top-level images in one container
MaxMeta == 1       \* most metadata blocks attached to one image handle
MaxPix == 1        \* largest pixel value written through a plane view

Threads == {"t1", "t2"}
NoThread == "none"
Null == "null"

HandleOrder == <<"h1", "h2">>
ImageOrder == <<"i1", "i2">>
PlaneOrder == <<"p1", "p2">>
EncoderOrder == <<"e1", "e2">>

Range(f) == {f[k] : k \in DOMAIN f}

HandleSlots == Range(HandleOrder)
ImageSlots == Range(ImageOrder)
PlaneSlots == Range(PlaneOrder)
EncoderSlots == Range(EncoderOrder)

(***************************************************************************)
(* Byte strings: sequences over {0, 1} of length at most MaxLen.           *)
(***************************************************************************)
ByteStrings == UNION {[1..n -> {0, 1}] : n \in 0..MaxLen}

(***************************************************************************)
(* heif_error_code, as the bindings export it, and heif_error records.     *)
(***************************************************************************)
ErrorCodes ==
  {"Ok", "Input_does_not_exist", "Invalid_input", "Unsupported_filetype",
   "Unsupported_feature", "Usage_error", "Memory_allocation_error",
   "Decoder_plugin_error", "Encoder_plugin_error", "Encoding_error",
   "Color_profile_does_not_exist"}

Err(c, s, m) == [code |-> c, subcode |-> s, message |-> m]

ErrOk == Err("Ok", "Unspecified", "Success")

(***************************************************************************)
(* What a call raises into the host.  HeifError carries code, subcode and  *)
(* message; std::runtime_error carries a message only.                     *)
(***************************************************************************)
NoExc == [type |-> "none", code |-> "Ok", subcode |-> "Unspecified", message |-> ""]

HeifError(err) ==
  [type |-> "HeifError", code |-> err.code, subcode |-> err.subcode,
   message |-> err.message]

runtime_error(m) ==
  [type |-> "runtime_error", code |-> "Ok", subcode |-> "Unspecified", message |-> m]

\* check_error: throws HeifError(err) exactly when err.code is not Ok.
check_error(err) == IF err.code # "Ok" THEN HeifError(err) ELSE NoExc

\* What the host sees of an exception.  An attribute the host's exception
\* object does not have is Absent.
Absent == "absent"

NoHostExc == [type |-> "none", code |-> Absent, subcode |-> Absent, message |-> ""]

\* py::register_exception<HeifError>(m, "HeifError"): the translator raises
\* the host's HeifError from what() alone.  Every other std::exception is
\* pybind11's default translation, again from what() alone.
register_exception(exc) ==
  IF exc.type = "none" THEN NoHostExc
  ELSE [type |-> IF exc.type = "HeifError" THEN "HeifError" ELSE "RuntimeError",
        code |-> Absent, subcode |-> Absent, message |-> exc.message]

(***************************************************************************)
(* State.                                                                  *)
(***************************************************************************)
VARIABLES
  gil,       \* the thread holding the host's global lock, or NoThread
  pc,        \* per thread: "idle", "native" (inside a handler whose native
             \* call has not run yet) or "ret" (native call returned)
  frame,     \* per thread: the locals of the handler it is inside
  ev,        \* what the last step did: "native" a native call ran, "failed"
             \* it reported failure, "fill" what a fill call wrote, "copy" an
             \* argument was copied, "host" the value or the C++ exception the
             \* handler ends with
  context,   \* the HeifContext object: st, ctx, memory_data
  nctx,      \* libheif's state behind the heif_context pointer
  handles,   \* HeifImageHandle objects and the native handle each holds
  images,    \* HeifImage objects and the native image each holds
  planes,    \* HeifPlane objects
  encoders,  \* HeifEncoder objects
  nlive,     \* native handles allocated and not yet released
  nrel,      \* per native handle: how often its release function ran
  mem,       \* native plane memory, per image and channel
  lastw,     \* per image and channel: the pixels last written by the host
  calls,     \* read_from_memory: calls made, calls that reached libheif, and
             \* the caller's bytes object of the last call that passed the guard
  probe,     \* the argument of a function applied on its own, and its result
  descriptors \* the HeifEncoderDescriptor objects of the last enumeration

vars ==
  <<gil, pc, frame, ev, context, nctx, handles, images, planes, encoders,
    nlive, nrel, mem, lastw, calls, probe, descriptors>>

thread_vars == <<gil, pc, frame>>
object_vars == <<handles, images, planes, encoders>>
native_vars == <<nlive, nrel>>

MaxCalls == 2      \* read_from_memory calls counted per container

Channels == {"Y", "Interleaved"}

\* Plane memory is addressed by native image and channel; "copy" stands for
\* memory that belongs to no native image.
Addresses == ImageSlots \cup {"copy"}

NoPlanes == [c \in Channels |-> <<>>]

\* A null data pointer, and the buffer of a plane no array was made from.
NullPtr == [img |-> Null, ch |-> Null]
NoBuffer ==
  [ptr |-> NullPtr, itemsize |-> 0, format |-> "", ndim |-> 0, shape |-> <<>>,
   strides |-> <<>>, readonly |-> TRUE]

NativeHandles ==
  {"ctx"} \cup HandleSlots \cup ImageSlots \cup EncoderSlots

IdleFrame ==
  [op |-> "none", arg |-> Null, arg2 |-> Null, str |-> "", err |-> ErrOk,
   val |-> <<>>, ret |-> Null]

Event(k, o, l, x, v) == [kind |-> k, op |-> o, locked |-> l, exc |-> x, val |-> v]

(***************************************************************************)
(* Init: the module is loaded and one HeifContext has been constructed     *)
(* (HeifContext::HeifContext: ctx = heif_context_alloc()).                 *)
(***************************************************************************)
EmptyNctx == [images |-> <<>>, primary |-> 0, src |-> "none", meta |-> <<>>]

HeifContext_ctor == [st |-> "live", ctx |-> "ctx", memory_data |-> <<>>]

\* Everything but the check_error probe.
Start ==
  /\ gil = NoThread
  /\ pc = [t \in Threads |-> "idle"]
  /\ frame = [t \in Threads |-> IdleFrame]
  /\ ev = {}
  /\ context = HeifContext_ctor
  /\ handles = [h \in HandleSlots |-> [st |-> "unborn", ptr |-> Null, item |-> 0, via |-> "none"]]
  /\ images = [i \in ImageSlots |->
                [st |-> "unborn", ptr |-> Null, pyref |-> FALSE, chroma |-> "undefined"]]
  /\ planes = [p \in PlaneSlots |->
                [st |-> "unborn", img |-> Null, channel |-> "Y", writeable |-> FALSE,
                 buf |-> NoBuffer]]
  /\ encoders = [e \in EncoderSlots |->
                  [st |-> "unborn", ptr |-> Null, quality |-> -1, preset |-> ""]]
  /\ nlive = {"ctx"}
  /\ nrel = [n \in NativeHandles |-> 0]
  /\ mem = [a \in Addresses |-> NoPlanes]
  /\ lastw = [i \in ImageSlots |-> NoPlanes]
  /\ calls = [made |-> 0, native |-> 0, data |-> <<>>]
  /\ descriptors = <<>>

NoProbe == [in |-> ErrOk, out |-> NoExc, host |-> NoHostExc, done |-> FALSE]

Init ==
  /\ Start
  /\ nctx = EmptyNctx
  /\ probe = NoProbe

(***************************************************************************)
(* The host's global lock.  A thread runs host code only while it holds    *)
(* the lock; between two calls it may give the lock up.                    *)
(***************************************************************************)
Acquire(t) ==
  /\ gil = NoThread /\ pc[t] = "idle"
  /\ gil' = t
  /\ ev' = {}
  /\ UNCHANGED <<pc, frame, context, nctx, object_vars, native_vars, mem, lastw, calls, probe, descriptors>>

Yield(t) ==
  /\ gil = t /\ pc[t] = "idle"
  /\ gil' = NoThread
  /\ ev' = {}
  /\ UNCHANGED <<pc, frame, context, nctx, object_vars, native_vars, mem, lastw, calls, probe, descriptors>>

EnterLocked(t, op, arg, arg2, str) ==
  /\ gil = t /\ pc[t] = "idle"
  /\ gil' = gil
  /\ pc' = [pc EXCEPT ![t] = "native"]
  /\ frame' = [frame EXCEPT ![t] =
                 [IdleFrame EXCEPT !.op = op, !.arg = arg, !.arg2 = arg2, !.str = str]]

\* py::gil_scoped_release: the calling thread holds the lock and gives it up.
Enter(t, op, arg, arg2, str) ==
  /\ gil = t /\ pc[t] = "idle"
  /\ gil' = NoThread
  /\ pc' = [pc EXCEPT ![t] = "native"]
  /\ frame' = [frame EXCEPT ![t] =
                 [IdleFrame EXCEPT !.op = op, !.arg = arg, !.arg2 = arg2, !.str = str]]

\* The native call of handler op returns err (and val) with the lock released.
Return(t, op, err, val, ret) ==
  /\ pc[t] = "native" /\ frame[t].op = op
  /\ pc' = [pc EXCEPT ![t] = "ret"]
  /\ frame' = [frame EXCEPT ![t].err = err, ![t].val = val, ![t].ret = ret]
  /\ UNCHANGED gil

\* ~gil_scoped_release: the lock is taken again, then the result or the
\* exception is handed to the host.
Leave(t, op) ==
  /\ pc[t] = "ret" /\ frame[t].op = op
  /\ gil = NoThread
  /\ gil' = t
  /\ pc' = [pc EXCEPT ![t] = "idle"]
  /\ frame' = [frame EXCEPT ![t] = IdleFrame]

(***************************************************************************)
(* libheif, as far as the wrapper can observe it.                          *)
(***************************************************************************)
Ids(n) == [k \in 1..n |-> k]

\* What reading a byte string or a file can leave in the context: an error
\* and no images, or Ok and between 1 and MaxTop top-level images, one of
\* them primary.  An empty input never parses.
NativeReadResults(empty) ==
  {[err |-> Err(c, "Unspecified", "read failed"), images |-> <<>>, primary |-> 0] :
     c \in {"Invalid_input", "Unsupported_filetype"}}
  \cup
  (IF empty THEN {}
   ELSE {[err |-> ErrOk, images |-> Ids(x[1]), primary |-> x[2]] :
           x \in {y \in (1..MaxTop) \X (1..MaxTop) : y[2] <= y[1]}})

\* Geometry of the compressed image stored under an item id.
NativeWidth(id) == 10 * id
NativeHeight(id) == 10 * id + 1

(***************************************************************************)
(* HeifContext::read_from_file                                             *)
(***************************************************************************)
read_from_file_begin(t) ==
  /\ context.st = "live"
  /\ Enter(t, "read_from_file", Null, Null, "")
  /\ ev' = {}
  /\ UNCHANGED <<context, nctx, object_vars, native_vars, mem, lastw, calls, probe, descriptors>>

read_from_file_native(t) ==
  \E r \in NativeReadResults(FALSE) :
    /\ Return(t, "read_from_file", r.err, <<>>, Null)
    /\ nctx' = IF r.err.code = "Ok"
               THEN [images |-> r.images, primary |-> r.primary, src |-> "file", meta |-> <<>>]
               ELSE nctx
    /\ ev' = {Event("native", "read_from_file", gil = t, NoExc, <<>>)}
    /\ UNCHANGED <<context, object_vars, native_vars, mem, lastw, calls, probe, descriptors>>

read_from_file_end(t) ==
  /\ Leave(t, "read_from_file")
  /\ ev' = {Event("host", "read_from_file", gil' = t, check_error(frame[t].err), <<>>)}
  /\ UNCHANGED <<context, nctx, object_vars, native_vars, mem, lastw, calls, probe, descriptors>>

(***************************************************************************)
(* HeifContext::read_from_memory                                           *)
(***************************************************************************)
\* std::string(data): the bytes of the host's bytes object, byte for byte.
string_of_bytes(data) == [k \in 1..Len(data) |-> data[k]]

Bump(n) == IF n < MaxCalls THEN n + 1 ELSE n

read_from_memory_begin_unchecked(t, data) ==
  /\ context.st = "live"
  /\ gil = t /\ pc[t] = "idle"
  /\ calls' = [calls EXCEPT !.made = Bump(@), !.data = data]
  /\ context' = [context EXCEPT !.memory_data = string_of_bytes(data)]
  /\ Enter(t, "read_from_memory", Null, Null, "")
  /\ ev' = {Event("copy", "read_from_memory", gil = t, NoExc, <<calls'.made>>)}
  /\ UNCHANGED <<nctx, object_vars, native_vars, mem, lastw, probe, descriptors>>

\* The guard and the copy run before gil_scoped_release is constructed.
read_from_memory_begin(t, data) ==
  /\ context.st = "live"
  /\ gil = t /\ pc[t] = "idle"
  /\ IF context.memory_data # <<>>
     THEN /\ calls' = [calls EXCEPT !.made = Bump(@)]
          /\ ev' = {Event("host", "read_from_memory", gil = t,
                          runtime_error("Context already initialized with memory data"),
                          <<calls'.made>>)}
          /\ UNCHANGED <<thread_vars, context>>
     ELSE /\ calls' = [calls EXCEPT !.made = Bump(@), !.data = data]
          /\ context' = [context EXCEPT !.memory_data = string_of_bytes(data)]
          /\ Enter(t, "read_from_memory", Null, Null, "")
          /\ ev' = {Event("copy", "read_from_memory", gil = t, NoExc, <<calls'.made>>)}
  /\ UNCHANGED <<nctx, object_vars, native_vars, mem, lastw, probe, descriptors>>

argument_view == [buf |-> "argument", size |-> Len(calls.data)]

\* The pointer and length handed to libheif: memory_data.data(), memory_data.size().
memory_view == [buf |-> "memory_data", size |-> Len(context.memory_data)]

\* The bytes libheif finds behind a view.
Deref(v) ==
  LET bytes == IF v.buf = "memory_data" THEN context.memory_data ELSE calls.data
  IN SubSeq(bytes, 1, v.size)

\* heif_context_read_from_memory_without_copy(ctx, memory_data.data(), size):
\* on success libheif keeps the view, it does not copy the bytes.
read_from_memory_native(t) ==
  \E r \in NativeReadResults(Deref(memory_view) = <<>>) :
    /\ Return(t, "read_from_memory", r.err, <<>>, Null)
    /\ nctx' = IF r.err.code = "Ok"
               THEN [images |-> r.images, primary |-> r.primary, src |-> memory_view.buf,
                     meta |-> <<>>]
               ELSE nctx
    /\ calls' = [calls EXCEPT !.native = Bump(@)]
    /\ ev' = {Event("native", "read_from_memory", gil = t, NoExc, Deref(memory_view))}
    /\ UNCHANGED <<context, object_vars, native_vars, mem, lastw, probe, descriptors>>

read_from_memory_end(t) ==
  /\ Leave(t, "read_from_memory")
  /\ ev' = {Event("host", "read_from_memory", gil' = t, check_error(frame[t].err), <<>>)}
  /\ UNCHANGED <<context, nctx, object_vars, native_vars, mem, lastw, calls, probe, descriptors>>

(***************************************************************************)
(* HeifContext::write_to_file                                              *)
(***************************************************************************)
NativeWriteResults ==
  {ErrOk, Err("Encoding_error", "Cannot_write_output_data", "write failed")}

write_to_file_begin(t) ==
  /\ context.st = "live"
  /\ Enter(t, "write_to_file", Null, Null, "")
  /\ ev' = {}
  /\ UNCHANGED <<context, nctx, object_vars, native_vars, mem, lastw, calls, probe, descriptors>>

write_to_file_native(t) ==
  \E err \in NativeWriteResults :
    /\ Return(t, "write_to_file", err, <<>>, Null)
    /\ ev' = {Event("native", "write_to_file", gil = t, NoExc, <<>>)}
    /\ UNCHANGED <<context, nctx, object_vars, native_vars, mem, lastw, calls, probe, descriptors>>

write_to_file_end(t) ==
  /\ Leave(t, "write_to_file")
  /\ ev' = {Event("host", "write_to_file", gil' = t, check_error(frame[t].err), <<>>)}
  /\ UNCHANGED <<context, nctx, object_vars, native_vars, mem, lastw, calls, probe, descriptors>>

(***************************************************************************)
(* writer_write and HeifContext::write_to_bytes                            *)
(***************************************************************************)
\* The serialised container, as the chunks heif_context_write pushes: a
\* header chunk, then one chunk per top-level image.
NativeChunks(c) == <<<<0>>>> \o [k \in 1..Len(c.images) |-> <<c.images[k] % 2>>]

writer_write_swallowing(wd, chunk, alloc_fails) ==
  IF alloc_fails THEN [wd |-> wd, err |-> ErrOk]
  ELSE [wd |-> wd \o chunk, err |-> ErrOk]

\* writer_write: append the chunk and return Ok; when the insert throws
\* (bad_alloc), catch it and return Memory_allocation_error.
writer_write(wd, chunk, alloc_fails) ==
  IF alloc_fails
  THEN [wd |-> wd,
        err |-> Err("Memory_allocation_error", "Unspecified",
                    "Memory allocation failed during write")]
  ELSE [wd |-> wd \o chunk, err |-> ErrOk]

\* heif_context_write: push the chunks in order, stop at the first chunk
\* the writer refuses and return the writer's error.
RECURSIVE NativeWrite(_, _, _, _)
NativeWrite(wd, chunks, k, fail_at) ==
  IF k > Len(chunks) THEN [wd |-> wd, err |-> ErrOk]
  ELSE LET r == writer_write(wd, chunks[k], k = fail_at)
       IN IF r.err.code # "Ok" THEN r ELSE NativeWrite(r.wd, chunks, k + 1, fail_at)

write_to_bytes_begin(t) ==
  /\ context.st = "live"
  /\ Enter(t, "write_to_bytes", Null, Null, "")
  /\ ev' = {}
  /\ UNCHANGED <<context, nctx, object_vars, native_vars, mem, lastw, calls, probe, descriptors>>

write_to_bytes_native(t) ==
  \E fail_at \in 0..(MaxTop + 1) :
    LET r == NativeWrite(<<>>, NativeChunks(nctx), 1, fail_at)
    IN /\ Return(t, "write_to_bytes", r.err, r.wd, Null)
       /\ ev' = {Event("native", "write_to_bytes", gil = t, NoExc, <<>>)}
       /\ UNCHANGED <<context, nctx, object_vars, native_vars, mem, lastw, calls, probe, descriptors>>

\* check_error runs inside the scope of the release; py::bytes is built after it.
write_to_bytes_end(t) ==
  /\ Leave(t, "write_to_bytes")
  /\ ev' = {Event("host", "write_to_bytes", gil' = t, check_error(frame[t].err),
                  IF frame[t].err.code = "Ok" THEN frame[t].val ELSE <<>>)}
  /\ UNCHANGED <<context, nctx, object_vars, native_vars, mem, lastw, calls, probe, descriptors>>

(***************************************************************************)
(* Wrapper objects are created in the first slot not used yet.             *)
(***************************************************************************)
FreeSlot(order, objs) ==
  LET free == {k \in 1..Len(order) : objs[order[k]].st = "unborn"}
  IN IF free = {} THEN Null
     ELSE order[CHOOSE k \in free : \A j \in free : k <= j]

\* A slot some thread's running call refers to (the call holds a reference).
InUse(x) ==
  \E t \in Threads : pc[t] # "idle" /\ (frame[t].arg = x \/ frame[t].arg2 = x)

(***************************************************************************)
(* HeifContext::get_primary_image_handle / get_image_handle                *)
(***************************************************************************)
NativePrimary(c) ==
  IF c.primary = 0
  THEN [err |-> Err("Invalid_input", "No_or_invalid_primary_item", "no primary image"),
        item |-> 0]
  ELSE [err |-> ErrOk, item |-> c.primary]

NativeImageHandle(c, id) ==
  IF id \in Range(c.images)
  THEN [err |-> ErrOk, item |-> id]
  ELSE [err |-> Err("Usage_error", "Nonexisting_item_referenced", "no such image"),
        item |-> 0]

\* check_error(native result); return std::make_shared<HeifImageHandle>(handle)
MakeHandle(t, op, h, r) ==
  /\ gil = t /\ pc[t] = "idle"
  /\ context.st = "live"
  /\ h = FreeSlot(HandleOrder, handles)
  /\ IF r.err.code # "Ok"
     THEN /\ ev' = {Event("native", op, gil = t, NoExc, <<>>),
                    Event("failed", op, gil = t, NoExc, <<>>),
                    Event("host", op, gil = t, check_error(r.err), <<>>)}
          /\ UNCHANGED <<handles, native_vars>>
     ELSE /\ handles' = [handles EXCEPT ![h] =
                            [st |-> "live", ptr |-> h, item |-> r.item, via |-> op]]
          /\ nlive' = nlive \cup {h}
          /\ ev' = {Event("native", op, gil = t, NoExc, <<>>),
                    Event("host", op, gil = t, NoExc, <<r.item>>)}
          /\ UNCHANGED nrel
  /\ UNCHANGED <<thread_vars, context, nctx, images, planes, encoders, mem, lastw, calls, probe, descriptors>>

get_primary_image_handle(t, h) ==
  MakeHandle(t, "get_primary_image_handle", h, NativePrimary(nctx))

get_image_handle(t, h, id) ==
  MakeHandle(t, "get_image_handle", h, NativeImageHandle(nctx, id))

(***************************************************************************)
(* HeifContext::get_list_of_top_level_image_IDs: the count query, a vector *)
(* of count zeroes, then the fill call, whose return value (the number of  *)
(* ids written) is dropped.  The lock is held from the first call to the   *)
(* return; a native call another thread made with the lock released may    *)
(* complete in between.                                                    *)
(***************************************************************************)
vector_short(count) == [k \in 1..(count - 1) |-> 0]

\* std::vector<heif_item_id> ids(count): count zeroes.
vector(count) == [k \in 1..count |-> 0]

\* The fill call: writes the first min(count, Len(list)) ids into buf.
NativeFill(list, buf, count) ==
  [k \in 1..Len(buf) |-> IF k <= count /\ k <= Len(list) THEN list[k] ELSE buf[k]]

NativeFilled(list, count) == IF count <= Len(list) THEN count ELSE Len(list)

get_list_of_top_level_image_IDs_count(t) ==
  /\ gil = t /\ pc[t] = "idle"
  /\ context.st = "live"
  /\ LET count == Len(nctx.images)
     IN /\ pc' = [pc EXCEPT ![t] = "fill"]
        /\ frame' = [frame EXCEPT ![t] =
                       [IdleFrame EXCEPT !.op = "get_list_of_top_level_image_IDs",
                                         !.val = vector(count)]]
        /\ ev' = {Event("native", "number_of_top_level_images", gil = t, NoExc, <<count>>)}
  /\ UNCHANGED <<gil, context, nctx, object_vars, native_vars, mem, lastw, calls, probe, descriptors>>

get_list_of_top_level_image_IDs_fill(t) ==
  /\ gil = t /\ pc[t] = "fill"
  /\ frame[t].op = "get_list_of_top_level_image_IDs"
  /\ LET count == Len(frame[t].val)
         ids == NativeFill(nctx.images, frame[t].val, count)
         filled == NativeFilled(nctx.images, count)
     IN ev' = {Event("fill", "get_list_of_top_level_image_IDs", gil = t,
                     NoExc, <<count, filled>>),
               Event("host", "get_list_of_top_level_image_IDs", gil = t, NoExc, ids)}
  /\ pc' = [pc EXCEPT ![t] = "idle"]
  /\ frame' = [frame EXCEPT ![t] = IdleFrame]
  /\ UNCHANGED <<gil, context, nctx, object_vars, native_vars, mem, lastw, calls, probe, descriptors>>

(***************************************************************************)
(* Metadata blocks.  libheif keeps them with the item they are attached    *)
(* to; a block is [id, item, type, data].                                  *)
(***************************************************************************)
MetaTypes == {"Exif", "mime", "json"}

\* HeifContext::add_exif_metadata / add_xmp_metadata / add_generic_metadata:
\* std::string data_str(data); check_error(heif_context_add_..._metadata(...))
AddMetadata(t, op, h, type, data) ==
  /\ gil = t /\ pc[t] = "idle"
  /\ context.st = "live" /\ handles[h].st = "live"
  /\ Len(nctx.meta) < MaxMeta
  /\ nctx' = [nctx EXCEPT !.meta =
                Append(@, [id |-> MaxTop + Len(@) + 1, item |-> handles[h].item,
                           type |-> type, data |-> string_of_bytes(data)])]
  /\ ev' = {Event("native", op, gil = t, NoExc, <<>>),
            Event("host", op, gil = t, check_error(ErrOk), <<>>)}
  /\ UNCHANGED <<thread_vars, context, object_vars, native_vars, mem, lastw, calls, probe, descriptors>>

add_exif_metadata(t, h, data) == AddMetadata(t, "add_exif_metadata", h, "Exif", data)

add_xmp_metadata(t, h, data) == AddMetadata(t, "add_xmp_metadata", h, "mime", data)

add_generic_metadata(t, h, data, item_type) ==
  AddMetadata(t, "add_generic_metadata", h, item_type, data)

\* The blocks of the item behind handle h; type_filter "" (passed as
\* nullptr) selects all of them.
IsBlockOf(h, type_filter, b) ==
  b.item = handles[h].item /\ (type_filter = "" \/ b.type = type_filter)

RECURSIVE BlockIds(_, _, _)
BlockIds(h, type_filter, blocks) ==
  IF blocks = <<>> THEN <<>>
  ELSE (IF IsBlockOf(h, type_filter, Head(blocks)) THEN <<Head(blocks).id>> ELSE <<>>)
       \o BlockIds(h, type_filter, Tail(blocks))

NativeBlock(h, id) ==
  {b \in Range(nctx.meta) : b.item = handles[h].item /\ b.id = id}

\* heif_image_handle_get_metadata_type: the type string, or a null pointer
\* when the handle has no block of that id.
NativeMetadataType(h, id) ==
  IF NativeBlock(h, id) = {} THEN Null ELSE (CHOOSE b \in NativeBlock(h, id) : TRUE).type

\* heif_image_handle_get_metadata_size: 0 when there is no such block.
NativeMetadataSize(h, id) ==
  IF NativeBlock(h, id) = {} THEN 0 ELSE Len((CHOOSE b \in NativeBlock(h, id) : TRUE).data)

\* heif_image_handle_get_metadata: the errors libheif may report for an
\* id the handle does not have.
NativeMetadata(h, id) ==
  IF NativeBlock(h, id) = {}
  THEN {[err |-> Err(c, "Nonexisting_item_referenced", "no such metadata"), data |-> <<>>] :
          c \in {"Usage_error", "Invalid_input"}}
  ELSE {[err |-> ErrOk, data |-> (CHOOSE b \in NativeBlock(h, id) : TRUE).data]}

(***************************************************************************)
(* HeifImageHandle::get_list_of_metadata_block_IDs: count, vector of       *)
(* zeroes, fill; the fill call's return value is dropped.                  *)
(***************************************************************************)
get_list_of_metadata_block_IDs_count(t, h, type_filter) ==
  /\ gil = t /\ pc[t] = "idle"
  /\ handles[h].st = "live"
  /\ LET count == Len(BlockIds(h, type_filter, nctx.meta))
     IN /\ pc' = [pc EXCEPT ![t] = "fill"]
        /\ frame' = [frame EXCEPT ![t] =
                       [IdleFrame EXCEPT !.op = "get_list_of_metadata_block_IDs",
                                         !.arg = h, !.str = type_filter,
                                         !.val = vector(count)]]
        /\ ev' = {Event("native", "number_of_metadata_blocks", gil = t, NoExc, <<count>>)}
  /\ UNCHANGED <<gil, context, nctx, object_vars, native_vars, mem, lastw, calls, probe, descriptors>>

get_list_of_metadata_block_IDs_fill(t) ==
  /\ gil = t /\ pc[t] = "fill"
  /\ frame[t].op = "get_list_of_metadata_block_IDs"
  /\ LET count == Len(frame[t].val)
         list == BlockIds(frame[t].arg, frame[t].str, nctx.meta)
         ids == NativeFill(list, frame[t].val, count)
     IN ev' = {Event("fill", "get_list_of_metadata_block_IDs", gil = t,
                     NoExc, <<count, NativeFilled(list, count)>>),
               Event("host", "get_list_of_metadata_block_IDs", gil = t, NoExc, ids)}
  /\ pc' = [pc EXCEPT ![t] = "idle"]
  /\ frame' = [frame EXCEPT ![t] = IdleFrame]
  /\ UNCHANGED <<gil, context, nctx, object_vars, native_vars, mem, lastw, calls, probe, descriptors>>

(***************************************************************************)
(* HeifImageHandle::get_metadata_block_type: the native const char* is     *)
(* converted to std::string with no null check.  Constructing a            *)
(* std::string from a null pointer is undefined: the build either throws  *)
(* std::logic_error or reads through the null pointer and crashes.         *)
(***************************************************************************)
string_from_null ==
  {[type |-> "logic_error", code |-> "Ok", subcode |-> "Unspecified",
    message |-> "basic_string: construction from null is not valid"],
   [type |-> "crash", code |-> "Ok", subcode |-> "Unspecified", message |-> ""]}

get_metadata_block_type(t, h, id) ==
  /\ gil = t /\ pc[t] = "idle"
  /\ handles[h].st = "live"
  /\ LET type == NativeMetadataType(h, id)
     IN IF type # Null
        THEN /\ ev' = {Event("native", "get_metadata_block_type", gil = t, NoExc, <<id>>),
                       Event("host", "get_metadata_block_type", gil = t, NoExc, <<id>>)}
             /\ UNCHANGED pc
        ELSE \E x \in string_from_null :
               /\ ev' = {Event("native", "get_metadata_block_type", gil = t, NoExc, <<id>>),
                         Event("failed", "get_metadata_block_type", gil = t, NoExc, <<id>>),
                         Event("host", "get_metadata_block_type", gil = t, x, <<id>>)}
               /\ pc' = IF x.type = "crash" THEN [pc EXCEPT ![t] = "crashed"] ELSE pc
  /\ UNCHANGED <<gil, frame, context, nctx, object_vars, native_vars, mem, lastw, calls, probe, descriptors>>

(***************************************************************************)
(* HeifImageHandle::get_metadata_block: size query, buffer of that size,   *)
(* check_error(heif_image_handle_get_metadata(...)), bytes of the buffer.  *)
(***************************************************************************)
get_metadata_block(t, h, id) ==
  /\ gil = t /\ pc[t] = "idle"
  /\ handles[h].st = "live"
  /\ \E r \in NativeMetadata(h, id) :
       LET size == NativeMetadataSize(h, id)
           data == [k \in 1..size |-> IF k <= Len(r.data) THEN r.data[k] ELSE 0]
       IN ev' = {Event("native", "get_metadata_block", gil = t, NoExc, <<id>>),
                 Event("host", "get_metadata_block", gil = t, check_error(r.err),
                       IF r.err.code = "Ok" THEN data ELSE <<>>)}
                \cup (IF r.err.code = "Ok" THEN {}
                      ELSE {Event("failed", "get_metadata_block", gil = t, NoExc, <<id>>)})
  /\ UNCHANGED <<thread_vars, context, nctx, object_vars, native_vars, mem, lastw, calls, probe, descriptors>>

(***************************************************************************)
(* HeifImageHandle::decode, bound with call_guard<gil_scoped_release>: the *)
(* whole body runs with the lock released; the HeifImage it returns is     *)
(* wrapped in a host object after the guard is gone.                       *)
(***************************************************************************)
Chromas == {"C420", "InterleavedRGB"}

\* The channels a decoded image of a chroma has planes for.
NativePlanes(chroma) == IF chroma = "InterleavedRGB" THEN {"Interleaved"} ELSE {"Y"}

NativeDecodeErrors ==
  {Err("Decoder_plugin_error", "Unspecified", "decode failed"),
   Err("Unsupported_feature", "Unsupported_color_conversion", "unsupported")}

decode_begin(t, h, chroma) ==
  /\ handles[h].st = "live" /\ ~InUse(h)
  /\ FreeSlot(ImageOrder, images) # Null
  /\ Enter(t, "decode", h, Null, chroma)
  /\ ev' = {}
  /\ UNCHANGED <<context, nctx, object_vars, native_vars, mem, lastw, calls, probe, descriptors>>

\* libheif reads the compressed data of an item when it decodes it.  A
\* container read from memory without copy has it in the caller's buffer:
\* once HeifContext is destroyed and memory_data with it, the read is a use
\* after free, which may fail, may decode what it finds, or may crash.
Dangling == nctx.src = "memory_data" /\ context.st = "destroyed"

NativeDecodeResults ==
  {[err |-> e, crash |-> FALSE] : e \in NativeDecodeErrors \cup {ErrOk}}
  \cup (IF Dangling THEN {[err |-> ErrOk, crash |-> TRUE]} ELSE {})

\* check_error(heif_decode_image(handle, &img, ...)); make_shared<HeifImage>(img)
decode_native(t, i) ==
  /\ pc[t] = "native" /\ frame[t].op = "decode"
  /\ i = FreeSlot(ImageOrder, images)
  /\ \E r \in NativeDecodeResults :
       IF r.crash
       THEN /\ pc' = [pc EXCEPT ![t] = "crashed"]
            /\ UNCHANGED <<gil, frame, images, native_vars, mem>>
       ELSE IF r.err.code # "Ok"
       THEN /\ Return(t, "decode", r.err, <<>>, Null)
            /\ UNCHANGED <<images, native_vars, mem>>
       ELSE /\ Return(t, "decode", ErrOk, <<>>, i)
            /\ images' = [images EXCEPT ![i] =
                            [st |-> "live", ptr |-> i, pyref |-> FALSE,
                             chroma |-> frame[t].str]]
            /\ nlive' = nlive \cup {i}
            /\ mem' = [mem EXCEPT ![i] =
                         [c \in Channels |->
                            IF c \in NativePlanes(frame[t].str) THEN <<0>> ELSE <<>>]]
            /\ UNCHANGED nrel
  /\ ev' = {Event("native", "decode", gil = t, NoExc, <<>>)}
  /\ UNCHANGED <<context, nctx, handles, planes, encoders, lastw, calls, probe, descriptors>>

decode_end(t) ==
  /\ Leave(t, "decode")
  /\ images' = IF frame[t].err.code = "Ok"
               THEN [images EXCEPT ![frame[t].ret].pyref = TRUE]
               ELSE images
  /\ ev' = {Event("host", "decode", gil' = t, check_error(frame[t].err), <<>>)}
  /\ UNCHANGED <<context, nctx, handles, planes, encoders, native_vars, mem, lastw, calls, probe, descriptors>>

(***************************************************************************)
(* HeifImage: construction for authoring, add_plane.                       *)
(***************************************************************************)
NativeCreateResults ==
  {ErrOk, Err("Usage_error", "Invalid_parameter_value", "invalid image size")}

\* HeifImage::HeifImage(width, height, colorspace, chroma):
\* check_error(heif_image_create(..., &image)); a throwing constructor
\* leaves no object behind, so no destructor runs for it.
HeifImage_ctor(t, i, chroma) ==
  /\ gil = t /\ pc[t] = "idle"
  /\ i = FreeSlot(ImageOrder, images)
  /\ \E err \in NativeCreateResults :
       /\ IF err.code = "Ok"
          THEN /\ images' = [images EXCEPT ![i] =
                               [st |-> "live", ptr |-> i, pyref |-> TRUE, chroma |-> chroma]]
               /\ nlive' = nlive \cup {i}
          ELSE UNCHANGED <<images, nlive>>
       /\ ev' = {Event("native", "HeifImage", gil = t, NoExc, <<>>),
                 Event("host", "HeifImage", gil = t, check_error(err), <<>>)}
  /\ UNCHANGED <<thread_vars, context, nctx, handles, planes, encoders, nrel, mem, lastw, calls, probe, descriptors>>

\* heif_image_add_plane refuses a channel the image's chroma has no plane for.
\* Adding a channel that already has a plane is left to libheif and is not
\* part of this model.
NativeAddPlane(chroma, channel) ==
  IF channel \in NativePlanes(chroma) THEN ErrOk
  ELSE Err("Usage_error", "Invalid_parameter_value", "channel does not fit chroma")

add_plane(t, i, channel) ==
  /\ gil = t /\ pc[t] = "idle"
  /\ images[i].st = "live" /\ images[i].pyref
  /\ mem[i][channel] = <<>>
  /\ LET err == NativeAddPlane(images[i].chroma, channel)
     IN /\ mem' = IF err.code = "Ok" THEN [mem EXCEPT ![i][channel] = <<0>>] ELSE mem
        /\ ev' = {Event("native", "add_plane", gil = t, NoExc, <<>>),
                  Event("host", "add_plane", gil = t, check_error(err), <<>>)}
  /\ UNCHANGED <<thread_vars, context, nctx, object_vars, native_vars, lastw, calls, probe, descriptors>>

(***************************************************************************)
(* HeifPlane and HeifImage::get_buffer_info.                               *)
(***************************************************************************)
\* heif_image_get_plane / heif_image_get_plane_readonly: the address of the
\* channel's plane inside the native image, or null when it has none.
heif_image_get_plane(i, channel) ==
  IF mem[i][channel] # <<>> THEN [img |-> i, ch |-> channel] ELSE NullPtr

heif_image_get_plane_readonly(i, channel) ==
  IF mem[i][channel] # <<>> THEN [img |-> i, ch |-> channel] ELSE NullPtr

plane_data_copied(i, channel, writeable) ==
  IF writeable
  THEN (IF mem[i][channel] # <<>> THEN [img |-> "copy", ch |-> channel] ELSE NullPtr)
  ELSE heif_image_get_plane_readonly(i, channel)

\* The data pointer get_buffer_info hands out.
plane_data(i, channel, writeable) ==
  IF writeable THEN heif_image_get_plane(i, channel)
  ELSE heif_image_get_plane_readonly(i, channel)

\* heif_chroma, every value of the native enumeration.
AllChromas ==
  {"undefined", "monochrome", "C420", "C422", "C444", "InterleavedRGB",
   "InterleavedRGBA", "InterleavedRRGGBB_BE", "InterleavedRRGGBBAA_BE",
   "InterleavedRRGGBB_LE", "InterleavedRRGGBBAA_LE"}

num_channels_by_name(chroma) ==
  IF chroma \in {"InterleavedRGB", "InterleavedRRGGBB_BE", "InterleavedRRGGBB_LE"} THEN 3
  ELSE IF chroma \in {"InterleavedRGBA", "InterleavedRRGGBBAA_BE",
                      "InterleavedRRGGBBAA_LE"} THEN 4
  ELSE 1

\* get_buffer_info, "Determine number of channels for interleaved formats".
num_channels(chroma) ==
  IF chroma = "InterleavedRGB" THEN 3
  ELSE IF chroma \in {"InterleavedRGBA", "InterleavedRRGGBB_BE", "InterleavedRRGGBB_LE",
                      "InterleavedRRGGBBAA_BE", "InterleavedRRGGBBAA_LE"} THEN 4
  ELSE 1

\* size_t bytes_per_channel = (bpp_per_channel + 7) / 8
bytes_per_channel(bpp) == (bpp + 7) \div 8

buffer_info_packed(data, width, height, bpp, stride, chroma, writeable) ==
  LET n == num_channels(chroma)
      b == bytes_per_channel(bpp)
  IN [ptr |-> data, itemsize |-> b, format |-> IF b = 1 THEN "B" ELSE "H",
      ndim |-> IF n > 1 THEN 3 ELSE 2,
      shape |-> IF n > 1 THEN <<height, width, n>> ELSE <<height, width>>,
      strides |-> IF n > 1 THEN <<width * n * b, n * b, b>> ELSE <<width * b, b>>,
      readonly |-> ~writeable]

buffer_info_writable(data, width, height, bpp, stride, chroma, writeable) ==
  LET n == num_channels(chroma)
      b == bytes_per_channel(bpp)
  IN [ptr |-> data, itemsize |-> b, format |-> IF b = 1 THEN "B" ELSE "H",
      ndim |-> IF n > 1 THEN 3 ELSE 2,
      shape |-> IF n > 1 THEN <<height, width, n>> ELSE <<height, width>>,
      strides |-> IF n > 1 THEN <<stride, n * b, b>> ELSE <<stride, b>>,
      readonly |-> FALSE]

\* The py::buffer_info get_buffer_info returns once the pointer is not null.
buffer_info(data, width, height, bpp, stride, chroma, writeable) ==
  LET n == num_channels(chroma)
      b == bytes_per_channel(bpp)
  IN [ptr |-> data, itemsize |-> b, format |-> IF b = 1 THEN "B" ELSE "H",
      ndim |-> IF n > 1 THEN 3 ELSE 2,
      shape |-> IF n > 1 THEN <<height, width, n>> ELSE <<height, width>>,
      strides |-> IF n > 1 THEN <<stride, n * b, b>> ELSE <<stride, b>>,
      readonly |-> ~writeable]

\* Geometry libheif reports for a plane of the model's images: two pixels
\* wide, one row, 8 bits, rows padded to 16 bytes.
NativePlaneWidth(i, channel) == 2
NativePlaneHeight(i, channel) == 1
NativeBitsPerPixel(i, channel) == 8
NativeStride(i, channel) == 16

\* HeifImage::get_buffer_info: the descriptor, or NoBuffer when it throws
\* runtime_error("Failed to get image plane data").
get_buffer_info(i, channel, writeable) ==
  LET data == plane_data(i, channel, writeable)
  IN IF data = NullPtr THEN NoBuffer
     ELSE buffer_info(data, NativePlaneWidth(i, channel), NativePlaneHeight(i, channel),
                      NativeBitsPerPixel(i, channel), NativeStride(i, channel),
                      images[i].chroma, writeable)

\* The get_plane binding: HeifPlane(self, channel, writeable).  The plane
\* keeps a shared_ptr to the image; no native call is made here.
get_plane(t, i, p, channel, writeable) ==
  /\ gil = t /\ pc[t] = "idle"
  /\ images[i].st = "live" /\ images[i].pyref
  /\ p = FreeSlot(PlaneOrder, planes)
  /\ planes' = [planes EXCEPT ![p] =
                  [st |-> "live", img |-> i, channel |-> channel,
                   writeable |-> writeable, buf |-> NoBuffer]]
  /\ ev' = {Event("host", "get_plane", gil = t, NoExc, <<>>)}
  /\ UNCHANGED <<thread_vars, context, nctx, handles, images, encoders, native_vars,
                 mem, lastw, calls, probe, descriptors>>

\* The buffer protocol on a HeifPlane (np.asarray(plane)):
\* HeifPlane::get_buffer_info calls img->get_buffer_info(channel, writeable).
plane_buffer(t, p) ==
  /\ gil = t /\ pc[t] = "idle"
  /\ planes[p].st = "live"
  /\ LET info == get_buffer_info(planes[p].img, planes[p].channel, planes[p].writeable)
     IN /\ planes' = [planes EXCEPT ![p].buf = info]
        /\ ev' = {Event("native", "get_buffer_info", gil = t, NoExc, <<>>),
                  Event("host", "get_buffer_info", gil = t,
                        IF info = NoBuffer
                        THEN runtime_error("Failed to get image plane data")
                        ELSE NoExc, <<>>)}
  /\ UNCHANGED <<thread_vars, context, nctx, handles, images, encoders, native_vars,
                 mem, lastw, calls, probe, descriptors>>

\* The host stores pixel value v through the array it made from plane p.
write_pixels(t, p, v) ==
  /\ gil = t /\ pc[t] = "idle"
  /\ planes[p].st = "live" /\ planes[p].buf # NoBuffer
  /\ ~planes[p].buf.readonly
  /\ mem' = [mem EXCEPT ![planes[p].buf.ptr.img][planes[p].buf.ptr.ch] = <<v>>]
  /\ lastw' = [lastw EXCEPT ![planes[p].img][planes[p].channel] = <<v>>]
  /\ ev' = {Event("host", "write_pixels", gil = t, NoExc, <<v>>)}
  /\ UNCHANGED <<thread_vars, context, nctx, object_vars, native_vars, calls, probe, descriptors>>

\* What the host reads through the array it made from plane p.
read_pixels(p) == mem[planes[p].buf.ptr.img][planes[p].buf.ptr.ch]

(***************************************************************************)
(* Ownership.  A HeifImage is held by std::shared_ptr: by the host object, *)
(* by every HeifPlane made from it, and by a call that is returning it.    *)
(***************************************************************************)
UseCountWithoutPlanes(imgs, pls, i) ==
  (IF imgs[i].pyref THEN 1 ELSE 0)
  + Cardinality({t \in Threads : pc[t] # "idle" /\ frame[t].ret = i})

UseCount(imgs, pls, i) ==
  (IF imgs[i].pyref THEN 1 ELSE 0)
  + Cardinality({p \in PlaneSlots : pls[p].st = "live" /\ pls[p].img = i})
  + Cardinality({t \in Threads : pc[t] # "idle" /\ frame[t].ret = i})

ReleaseNever(ptr) == nrel

\* Every destructor: if (ptr) { native release function (ptr); }
Release(ptr) == IF ptr # Null THEN [nrel EXCEPT ![ptr] = @ + 1] ELSE nrel

\* HeifImage::~HeifImage runs when the last shared_ptr to image i goes.
DropImageRef(imgs, pls, i) ==
  IF imgs[i].st = "live" /\ UseCount(imgs, pls, i) = 0
  THEN /\ images' = [imgs EXCEPT ![i].st = "destroyed"]
       /\ nrel' = Release(imgs[i].ptr)
       /\ nlive' = nlive \ {imgs[i].ptr}
       /\ mem' = [mem EXCEPT ![i] = NoPlanes]
  ELSE /\ images' = imgs
       /\ UNCHANGED <<native_vars, mem>>

\* The host drops its reference to the HeifImage object.
drop_image(t, i) ==
  /\ gil = t /\ pc[t] = "idle"
  /\ images[i].st = "live" /\ images[i].pyref /\ ~InUse(i)
  /\ DropImageRef([images EXCEPT ![i].pyref = FALSE], planes, i)
  /\ ev' = {}
  /\ UNCHANGED <<thread_vars, context, nctx, handles, planes, encoders, lastw, calls, probe, descriptors>>

\* The host drops the HeifPlane object (and every array made from it).
drop_plane(t, p) ==
  /\ gil = t /\ pc[t] = "idle"
  /\ planes[p].st = "live"
  /\ planes' = [planes EXCEPT ![p].st = "destroyed", ![p].buf = NoBuffer]
  /\ DropImageRef(images, planes', planes[p].img)
  /\ ev' = {}
  /\ UNCHANGED <<thread_vars, context, nctx, handles, encoders, lastw, calls, probe, descriptors>>

\* HeifImageHandle::~HeifImageHandle
drop_handle(t, h) ==
  /\ gil = t /\ pc[t] = "idle"
  /\ handles[h].st = "live" /\ ~InUse(h)
  /\ \A u \in Threads : pc[u] # "idle" => frame[u].ret # h
  /\ handles' = [handles EXCEPT ![h].st = "destroyed"]
  /\ nrel' = Release(handles[h].ptr)
  /\ nlive' = nlive \ {handles[h].ptr}
  /\ ev' = {}
  /\ UNCHANGED <<thread_vars, context, nctx, images, planes, encoders, mem, lastw, calls, probe, descriptors>>

\* HeifContext::~HeifContext: heif_context_free(ctx), then the members go,
\* memory_data among them.
drop_context(t) ==
  /\ gil = t /\ \A u \in Threads : pc[u] = "idle"
  /\ context.st = "live"
  /\ context' = [context EXCEPT !.st = "destroyed", !.memory_data = <<>>]
  /\ nrel' = Release(context.ctx)
  /\ nlive' = nlive \ {context.ctx}
  /\ ev' = {}
  /\ UNCHANGED <<thread_vars, nctx, object_vars, mem, lastw, calls, probe, descriptors>>

\* __enter__ returns self; __exit__ does nothing.
enter(t) ==
  /\ gil = t /\ pc[t] = "idle"
  /\ context.st = "live"
  /\ ev' = {Event("host", "__enter__", gil = t, NoExc, <<>>)}
  /\ UNCHANGED <<thread_vars, context, nctx, object_vars, native_vars, mem, lastw, calls, probe, descriptors>>

exit_teardown(t) ==
  /\ gil = t /\ \A u \in Threads : pc[u] = "idle"
  /\ context.st = "live"
  /\ context' = [context EXCEPT !.st = "destroyed", !.memory_data = <<>>]
  /\ nrel' = Release(context.ctx)
  /\ nlive' = nlive \ {context.ctx}
  /\ ev' = {Event("host", "__exit__", gil = t, NoExc, <<>>)}
  /\ UNCHANGED <<thread_vars, nctx, object_vars, mem, lastw, calls, probe, descriptors>>

exit(t) ==
  /\ gil = t /\ pc[t] = "idle"
  /\ context.st = "live"
  /\ ev' = {Event("host", "__exit__", gil = t, NoExc, <<>>)}
  /\ UNCHANGED <<thread_vars, context, nctx, object_vars, native_vars, mem, lastw, calls, probe, descriptors>>

(***************************************************************************)
(* HeifEncoder.                                                            *)
(***************************************************************************)
Formats == {"HEVC", "JPEG2000"}

\* The compression formats an encoder plugin is registered for.
NativeRegistered == {"HEVC"}

Qualities == {50, 101}
Presets == {"fast", "slow", "bad"}
ParameterNames == {"preset", "unknown"}

\* heif_context_get_encoder_for_format: Ok and an encoder when a plugin is
\* registered for the format; otherwise an error whose code is libheif's
\* choice (the wrapper passes it on as it is).
NativeEncoderForFormat(format) ==
  IF format \in NativeRegistered THEN {ErrOk}
  ELSE {Err(c, "Unspecified", "no encoder for format") :
          c \in {"Unsupported_filetype", "Unsupported_feature"}}

\* HeifEncoder::HeifEncoder(format):
\* check_error(heif_context_get_encoder_for_format(nullptr, format, &encoder))
HeifEncoder_ctor(t, e, format) ==
  /\ gil = t /\ pc[t] = "idle"
  /\ e = FreeSlot(EncoderOrder, encoders)
  /\ \E err \in NativeEncoderForFormat(format) :
        /\ IF err.code = "Ok"
           THEN /\ encoders' = [encoders EXCEPT ![e] =
                                  [st |-> "live", ptr |-> e, quality |-> -1, preset |-> ""]]
                /\ nlive' = nlive \cup {e}
           ELSE UNCHANGED <<encoders, nlive>>
        /\ ev' = {Event("native", "HeifEncoder", gil = t, NoExc, <<>>),
                  Event("host", "HeifEncoder", gil = t, check_error(err), <<>>)}
  /\ UNCHANGED <<thread_vars, context, nctx, handles, images, planes, nrel, mem,
                 lastw, calls, probe, descriptors>>

NativeSetQuality(q) ==
  IF q >= 0 /\ q <= 100 THEN ErrOk
  ELSE Err("Usage_error", "Invalid_parameter_value", "quality out of range")

NativeSetParameter(name, value) ==
  IF name = "preset" /\ value # "bad" THEN ErrOk
  ELSE Err("Usage_error", "Invalid_parameter_value", "invalid parameter")

\* HeifEncoder::set_lossy_quality
set_lossy_quality(t, e, q) ==
  /\ gil = t /\ pc[t] = "idle"
  /\ encoders[e].st = "live"
  /\ LET err == NativeSetQuality(q)
     IN /\ encoders' = IF err.code = "Ok" THEN [encoders EXCEPT ![e].quality = q]
                       ELSE encoders
        /\ ev' = {Event("native", "set_lossy_quality", gil = t, NoExc, <<>>),
                  Event("host", "set_lossy_quality", gil = t, check_error(err), <<>>)}
  /\ UNCHANGED <<thread_vars, context, nctx, handles, images, planes, native_vars,
                 mem, lastw, calls, probe, descriptors>>

\* HeifEncoder::set_parameter
set_parameter(t, e, name, value) ==
  /\ gil = t /\ pc[t] = "idle"
  /\ encoders[e].st = "live"
  /\ LET err == NativeSetParameter(name, value)
     IN /\ encoders' = IF err.code = "Ok" THEN [encoders EXCEPT ![e].preset = value]
                       ELSE encoders
        /\ ev' = {Event("native", "set_parameter", gil = t, NoExc, <<name, value>>),
                  Event("host", "set_parameter", gil = t, check_error(err), <<>>)}
  /\ UNCHANGED <<thread_vars, context, nctx, handles, images, planes, native_vars,
                 mem, lastw, calls, probe, descriptors>>

NativeEncodeErrors ==
  {Err("Encoder_plugin_error", "Unspecified", "encode failed")}

\* HeifEncoder::encode_image, bound with call_guard<gil_scoped_release>.
encode_image_begin(t, e, i, preset) ==
  /\ context.st = "live" /\ encoders[e].st = "live"
  /\ images[i].st = "live" /\ images[i].pyref
  /\ ~InUse(e) /\ ~InUse(i)
  /\ FreeSlot(HandleOrder, handles) # Null /\ Len(nctx.images) < MaxTop
  /\ Enter(t, "encode_image", e, i, preset)
  /\ ev' = {}
  /\ UNCHANGED <<context, nctx, object_vars, native_vars, mem, lastw, calls, probe, descriptors>>

encoder_for_encode_keep(e, preset) ==
  IF preset # "" /\ encoders[e].preset = ""
  THEN [encoders[e] EXCEPT !.preset = preset]
  ELSE encoders[e]

\* The encoder as heif_context_encode_image finds it:
\* if (!preset.empty()) set_parameter("preset", preset) has run before.
encoder_for_encode(e, preset) ==
  IF preset # "" THEN [encoders[e] EXCEPT !.preset = preset] ELSE encoders[e]

\* if (!preset.empty()) set_parameter("preset", preset);
\* check_error(heif_context_encode_image(...)); make_shared<HeifImageHandle>
encode_image_native(t, h) ==
  /\ pc[t] = "native" /\ frame[t].op = "encode_image"
  /\ h = FreeSlot(HandleOrder, handles)
  /\ LET e == frame[t].arg
         preset == frame[t].str
         perr == IF preset # "" THEN NativeSetParameter("preset", preset) ELSE ErrOk
         sets == IF preset # ""
                 THEN {Event("native", "set_parameter", gil = t, NoExc, <<"preset", preset>>)}
                 ELSE {}
     IN IF perr.code # "Ok"
        THEN /\ Return(t, "encode_image", perr, <<>>, Null)
             /\ ev' = sets
             /\ UNCHANGED <<nctx, handles, encoders, native_vars>>
        ELSE /\ encoders' = [encoders EXCEPT ![e] = encoder_for_encode(e, preset)]
             /\ ev' = sets \cup {Event("native", "encode_image", gil = t, NoExc,
                                       <<encoders'[e].preset>>)}
             /\ \/ \E err \in NativeEncodeErrors :
                     /\ Return(t, "encode_image", err, <<>>, Null)
                     /\ UNCHANGED <<nctx, handles, native_vars>>
                \/ LET id == Len(nctx.images) + 1
                   IN /\ Return(t, "encode_image", ErrOk, <<id>>, h)
                      /\ nctx' = [nctx EXCEPT !.images = Append(@, id),
                                              !.primary = IF @ = 0 THEN id ELSE @]
                      /\ handles' = [handles EXCEPT ![h] =
                                       [st |-> "live", ptr |-> h, item |-> id,
                                        via |-> "encode_image"]]
                      /\ nlive' = nlive \cup {h}
                      /\ UNCHANGED nrel
  /\ UNCHANGED <<context, images, planes, mem, lastw, calls, probe, descriptors>>

encode_image_end(t) ==
  /\ Leave(t, "encode_image")
  /\ ev' = {Event("host", "encode_image", gil' = t, check_error(frame[t].err),
                  frame[t].val)}
  /\ UNCHANGED <<context, nctx, object_vars, native_vars, mem, lastw, calls, probe, descriptors>>

\* HeifEncoder::~HeifEncoder
drop_encoder(t, e) ==
  /\ gil = t /\ pc[t] = "idle"
  /\ encoders[e].st = "live" /\ ~InUse(e)
  /\ encoders' = [encoders EXCEPT ![e].st = "destroyed"]
  /\ nrel' = Release(encoders[e].ptr)
  /\ nlive' = nlive \ {encoders[e].ptr}
  /\ ev' = {}
  /\ UNCHANGED <<thread_vars, context, nctx, handles, images, planes, mem, lastw, calls, probe, descriptors>>

(***************************************************************************)
(* HeifEncoderDescriptor and get_encoder_descriptors.                      *)
(***************************************************************************)
\* libheif's registry of encoder plugins: the address of each descriptor
\* and what the descriptor says.
NativeDescriptors ==
  <<[ptr |-> "d1", id_name |-> "x265", name |-> "x265 HEVC encoder", format |-> "HEVC"],
    [ptr |-> "d2", id_name |-> "kvazaar", name |-> "Kvazaar HEVC encoder", format |-> "HEVC"]>>

FormatFilters == Formats \cup {"undefined"}
NameFilters == {"", "x265", "aom"}

\* The addresses of the descriptors in seq that pass both filters, in order.
RECURSIVE SelectSeqOf(_, _, _)
SelectSeqOf(seq, ff, nf) ==
  IF seq = <<>> THEN <<>>
  ELSE LET d == Head(seq)
           rest == SelectSeqOf(Tail(seq), ff, nf)
       IN IF (ff = "undefined" \/ d.format = ff) /\ (nf = "" \/ d.id_name = nf)
          THEN <<d.ptr>> \o rest
          ELSE rest

\* heif_get_encoder_descriptors(format_filter, name_filter, out, count):
\* the addresses of the matching descriptors; with out = nullptr only their
\* number.
heif_get_encoder_descriptors(format_filter, name_filter) ==
  SelectSeqOf(NativeDescriptors, format_filter, name_filter)

\* What libheif finds behind the address of a descriptor.
NativeDescriptor(ptr) ==
  LET k == CHOOSE j \in 1..Len(NativeDescriptors) : NativeDescriptors[j].ptr = ptr
  IN NativeDescriptors[k]

\* HeifEncoderDescriptor(descriptor): the object keeps the address.
HeifEncoderDescriptor(ptr) == [descriptor |-> ptr]

\* get_encoder_descriptors: the count query, then, for a count above 0, the
\* fill into a new array, one emplace_back per address, delete[] of the array.
get_encoder_descriptors(t, format_filter, name_filter) ==
  /\ gil = t /\ pc[t] = "idle"
  /\ LET found == heif_get_encoder_descriptors(format_filter, name_filter)
         count == Len(found)
         result == IF count > 0
                   THEN [k \in 1..count |-> HeifEncoderDescriptor(found[k])]
                   ELSE <<>>
     IN /\ descriptors' = result
        /\ ev' = {Event("native", "get_encoder_descriptors", gil = t, NoExc, <<"count">>),
                  Event("host", "get_encoder_descriptors", gil = t, NoExc,
                        <<count, Len(result)>>)}
                 \cup (IF count > 0
                       THEN {Event("native", "get_encoder_descriptors", gil = t, NoExc,
                                   <<"fill">>)}
                       ELSE {})
  /\ UNCHANGED <<thread_vars, context, nctx, object_vars, native_vars, mem, lastw,
                 calls, probe>>

DescriptorFields == {"id_name", "name", "compression_format"}

\* HeifEncoderDescriptor::id_name / name / compression_format: each calls
\* heif_encoder_descriptor_get_... on the address the object keeps.
descriptor_field(t, k, field) ==
  /\ gil = t /\ pc[t] = "idle"
  /\ k \in 1..Len(descriptors)
  /\ LET ptr == descriptors[k].descriptor
         d == NativeDescriptor(ptr)
         value == IF field = "id_name" THEN d.id_name
                  ELSE IF field = "name" THEN d.name
                  ELSE d.format
     IN ev' = {Event("native", field, gil = t, NoExc, <<ptr>>),
               Event("host", field, gil = t, NoExc, <<value>>)}
  /\ UNCHANGED <<thread_vars, context, nctx, object_vars, native_vars, mem, lastw,
                 calls, probe, descriptors>>

\* HeifEncoder::HeifEncoder(descriptor):
\* check_error(heif_context_get_encoder(nullptr, descriptor.get(), &encoder))
HeifEncoder_ctor_descriptor(t, e, k) ==
  /\ gil = t /\ pc[t] = "idle"
  /\ k \in 1..Len(descriptors)
  /\ e = FreeSlot(EncoderOrder, encoders)
  /\ encoders' = [encoders EXCEPT ![e] =
                    [st |-> "live", ptr |-> e, quality |-> -1, preset |-> ""]]
  /\ nlive' = nlive \cup {e}
  /\ ev' = {Event("native", "HeifEncoder", gil = t, NoExc, <<descriptors[k].descriptor>>),
            Event("host", "HeifEncoder", gil = t, NoExc, <<>>)}
  /\ UNCHANGED <<thread_vars, context, nctx, handles, images, planes, nrel, mem,
                 lastw, calls, probe, descriptors>>

(***************************************************************************)
(* HeifImageHandle::get_width / get_height: reads of the native handle.    *)
(***************************************************************************)
get_width(h) == NativeWidth(handles[h].item)
get_height(h) == NativeHeight(handles[h].item)

(***************************************************************************)
(* check_error applied to one native result record.                        *)
(***************************************************************************)
Subcodes == {"Unspecified", "Nonexisting_item_referenced", "Unsupported_codec"}
Messages == {"Success", "no such item", "unsupported"}

ErrorRecords == [code : ErrorCodes, subcode : Subcodes, message : Messages]

InitErr ==
  /\ Start
  /\ nctx = EmptyNctx
  /\ probe \in [in : ErrorRecords, out : {NoExc}, host : {NoHostExc}, done : {FALSE}]

\* A call site: check_error(err) on the record a native call returned, and
\* the translation of what it throws into the host's exception.
call_check_error ==
  /\ ~probe.done
  /\ probe' = [probe EXCEPT !.out = check_error(probe.in),
                             !.host = register_exception(check_error(probe.in)),
                             !.done = TRUE]
  /\ UNCHANGED <<gil, pc, frame, ev, context, nctx, handles, images, planes,
                 encoders, nlive, nrel, mem, lastw, calls, descriptors>>

NextErr == call_check_error

SpecErr == InitErr /\ [][NextErr]_vars

(***************************************************************************)
(* buffer_info applied to the geometry libheif can report for one plane.   *)
(***************************************************************************)
MaxDim == 2        \* largest plane width and height, in pixels
MaxPad == 1        \* most padding units at the end of a row

\* Bit depths a plane can report: those libheif decodes to, and any depth
\* the host gave add_plane, which hands bit_depth to libheif unchecked.
BitDepths == {8, 10, 16, 24}

\* A row holds at least width * channels * element bytes; libheif may pad it.
LayoutInputs ==
  {x \in [width : 1..MaxDim, height : 1..MaxDim, bpp : BitDepths,
          stride : 1..(MaxDim * 12 + MaxPad * 8), chroma : AllChromas,
          writeable : BOOLEAN] :
     \E pad \in 0..MaxPad :
       x.stride = x.width * num_channels(x.chroma) * bytes_per_channel(x.bpp) + pad * 8}

InitLayout ==
  /\ Start
  /\ nctx = EmptyNctx
  /\ probe \in [in : LayoutInputs, out : {NoBuffer}, done : {FALSE}]

call_buffer_info ==
  /\ ~probe.done
  /\ probe' = [probe EXCEPT
                 !.out = buffer_info([img |-> "i1", ch |-> "Interleaved"], probe.in.width,
                                     probe.in.height, probe.in.bpp, probe.in.stride,
                                     probe.in.chroma, probe.in.writeable),
                 !.done = TRUE]
  /\ UNCHANGED <<gil, pc, frame, ev, context, nctx, handles, images, planes,
                 encoders, nlive, nrel, mem, lastw, calls, descriptors>>

NextLayout == call_buffer_info

SpecLayout == InitLayout /\ [][NextLayout]_vars

(***************************************************************************)
(* Specifications.                                                         *)
(***************************************************************************)
\* Calls on one handle are serialised by the caller: one host thread works
\* on the HeifContext and its objects, the other runs unrelated host code
\* whenever it can take the lock.
Workers == {"t1"}

Next ==
  \/ \E t \in Threads : Acquire(t)
  \/ \E t \in Threads : Yield(t)
  \/ \E t \in Workers :
       \/ read_from_file_begin(t)
       \/ read_from_file_native(t)
       \/ read_from_file_end(t)
       \/ \E data \in ByteStrings : read_from_memory_begin(t, data)
       \/ read_from_memory_native(t)
       \/ read_from_memory_end(t)
       \/ write_to_file_begin(t)
       \/ write_to_file_native(t)
       \/ write_to_file_end(t)
       \/ write_to_bytes_begin(t)
       \/ write_to_bytes_native(t)
       \/ write_to_bytes_end(t)
       \/ get_list_of_top_level_image_IDs_count(t)
       \/ get_list_of_top_level_image_IDs_fill(t)
       \/ HeifImage_ctor(t, "i1", "InterleavedRGB")
       \/ HeifEncoder_ctor(t, "e1", "HEVC")
       \/ \E i \in ImageSlots : encode_image_begin(t, "e1", i, "")
       \/ \E h \in HandleSlots : encode_image_native(t, h)
       \/ encode_image_end(t)
       \/ \E h \in HandleSlots : decode_begin(t, h, "InterleavedRGB")
       \/ \E i \in ImageSlots : decode_native(t, i)
       \/ decode_end(t)

Spec == Init /\ [][Next]_vars

\* One host thread creating, using and dropping wrapper objects.
NextLife ==
  \E t \in Workers :
    \/ Acquire(t)
    \/ \E i \in ImageSlots : HeifImage_ctor(t, i, "InterleavedRGB")
    \/ \E i \in ImageSlots, p \in PlaneSlots, w \in BOOLEAN :
         get_plane(t, i, p, "Interleaved", w)
    \/ \E p \in PlaneSlots : drop_plane(t, p)
    \/ \E i \in ImageSlots : drop_image(t, i)
    \/ \E e \in EncoderSlots, f \in Formats : HeifEncoder_ctor(t, e, f)
    \/ \E e \in EncoderSlots, i \in ImageSlots : encode_image_begin(t, e, i, "")
    \/ \E h \in HandleSlots : encode_image_native(t, h)
    \/ encode_image_end(t)
    \/ \E h \in HandleSlots : decode_begin(t, h, "InterleavedRGB")
    \/ \E i \in ImageSlots : decode_native(t, i)
    \/ decode_end(t)
    \/ \E h \in HandleSlots : drop_handle(t, h)
    \/ \E e \in EncoderSlots : drop_encoder(t, e)
    \/ enter(t)
    \/ exit(t)
    \/ drop_context(t)

SpecLife == Init /\ [][NextLife]_vars

\* One host thread querying a container that has been read.
LoadedContexts ==
  {[images |-> r.images, primary |-> r.primary, src |-> "file", meta |-> <<>>] :
     r \in {x \in NativeReadResults(FALSE) : x.err.code = "Ok"}}

InitQuery ==
  /\ Start
  /\ nctx \in LoadedContexts \cup {EmptyNctx}
  /\ probe = NoProbe

ItemIds == 1..(MaxTop + MaxMeta)

NextQuery ==
  \E t \in Workers :
    \/ Acquire(t)
    \/ \E h \in HandleSlots : get_primary_image_handle(t, h)
    \/ \E h \in HandleSlots, id \in ItemIds : get_image_handle(t, h, id)
    \/ get_list_of_top_level_image_IDs_count(t)
    \/ get_list_of_top_level_image_IDs_fill(t)
    \/ \E h \in HandleSlots : add_exif_metadata(t, h, <<1>>)
    \/ \E h \in HandleSlots : add_xmp_metadata(t, h, <<1>>)
    \/ \E h \in HandleSlots : add_generic_metadata(t, h, <<1>>, "json")
    \/ \E h \in HandleSlots, f \in {"", "Exif"} :
         get_list_of_metadata_block_IDs_count(t, h, f)
    \/ get_list_of_metadata_block_IDs_fill(t)
    \/ \E h \in HandleSlots, id \in ItemIds : get_metadata_block_type(t, h, id)
    \/ \E h \in HandleSlots, id \in ItemIds : get_metadata_block(t, h, id)
    \/ \E h \in HandleSlots : drop_handle(t, h)

SpecQuery == InitQuery /\ [][NextQuery]_vars

\* One host thread reading a container from memory, taking handles from it,
\* decoding through them, and dropping the container and the handles in
\* any order.
NextMemory ==
  \E t \in Workers :
    \/ Acquire(t)
    \/ \E data \in ByteStrings : read_from_memory_begin(t, data)
    \/ read_from_memory_native(t)
    \/ read_from_memory_end(t)
    \/ \E h \in HandleSlots : get_primary_image_handle(t, h)
    \/ \E h \in HandleSlots, id \in 1..MaxTop : get_image_handle(t, h, id)
    \/ \E h \in HandleSlots : decode_begin(t, h, "InterleavedRGB")
    \/ \E i \in ImageSlots : decode_native(t, i)
    \/ decode_end(t)
    \/ \E h \in HandleSlots : drop_handle(t, h)
    \/ enter(t)
    \/ exit(t)
    \/ drop_context(t)

SpecMemory == Init /\ [][NextMemory]_vars

\* Two host threads calling read_from_memory with non-empty bytes on the one
\* HeifContext, each whenever it holds the lock.
NonEmptyByteStrings == ByteStrings \ {<<>>}

NextRace ==
  \E t \in Threads :
    \/ Acquire(t)
    \/ Yield(t)
    \/ \E data \in NonEmptyByteStrings : read_from_memory_begin(t, data)
    \/ read_from_memory_native(t)
    \/ read_from_memory_end(t)

SpecRace == Init /\ [][NextRace]_vars

\* One host thread configuring an encoder and encoding an image with it,
\* with and without a preset argument.
NextEncode ==
  \E t \in Workers :
    \/ Acquire(t)
    \/ HeifImage_ctor(t, "i1", "InterleavedRGB")
    \/ HeifEncoder_ctor(t, "e1", "HEVC")
    \/ \E q \in Qualities : set_lossy_quality(t, "e1", q)
    \/ \E name \in ParameterNames, value \in Presets : set_parameter(t, "e1", name, value)
    \/ \E preset \in Presets \cup {""} : encode_image_begin(t, "e1", "i1", preset)
    \/ \E h \in HandleSlots : encode_image_native(t, h)
    \/ encode_image_end(t)
    \/ \E h \in HandleSlots : drop_handle(t, h)

SpecEncode == Init /\ [][NextEncode]_vars

\* One host thread enumerating encoder descriptors, reading their fields
\* and constructing encoders from them.
NextDescriptor ==
  \E t \in Workers :
    \/ Acquire(t)
    \/ Yield(t)
    \/ \E ff \in FormatFilters, nf \in NameFilters : get_encoder_descriptors(t, ff, nf)
    \/ \E k \in 1..Len(NativeDescriptors), field \in DescriptorFields :
         descriptor_field(t, k, field)
    \/ \E e \in EncoderSlots, k \in 1..Len(NativeDescriptors) :
         HeifEncoder_ctor_descriptor(t, e, k)
    \/ \E e \in EncoderSlots : drop_encoder(t, e)

SpecDescriptor == Init /\ [][NextDescriptor]_vars

\* One host thread building images and working on their planes.
NextPlane ==
  \E t \in Workers :
    \/ Acquire(t)
    \/ \E i \in ImageSlots, c \in Chromas : HeifImage_ctor(t, i, c)
    \/ \E i \in ImageSlots, c \in Channels : add_plane(t, i, c)
    \/ \E i \in ImageSlots, p \in PlaneSlots, c \in Channels, w \in BOOLEAN :
         get_plane(t, i, p, c, w)
    \/ \E p \in PlaneSlots : plane_buffer(t, p)
    \/ \E p \in PlaneSlots, v \in 0..MaxPix : write_pixels(t, p, v)
    \/ \E p \in PlaneSlots : drop_plane(t, p)
    \/ \E i \in ImageSlots : drop_image(t, i)

SpecPlane == Init /\ [][NextPlane]_vars

(***************************************************************************)
(* C3.  A second read_from_memory call on the same HeifContext fails with  *)
(* a HeifError of code Usage_error before libheif is called: it neither    *)
(* stores the new bytes nor reaches the native read.                       *)
(***************************************************************************)
C3_SecondReadFailsWithUsageError ==
  \A e \in ev :
    (e.op = "read_from_memory" /\ e.kind \in {"host", "copy"}
       /\ Len(e.val) = 1 /\ e.val[1] >= 2)
    => (e.kind = "host" /\ e.exc.type = "HeifError" /\ e.exc.code = "Usage_error")

(***************************************************************************)
(* C4.  read_from_memory reaches libheif at most once per HeifContext,     *)
(* whatever bytes the first call supplied and whatever libheif answered.   *)
(***************************************************************************)
C4_NativeReadAtMostOnce == calls.native <= 1

(***************************************************************************)
(* C1.  Every native handle is released exactly once, by the destructor of *)
(* the wrapper that holds it: a live wrapper's handle is allocated and not *)
(* released, a destroyed wrapper's handle was released once, and a wrapper *)
(* that was never built (or whose constructor threw) released nothing.     *)
(***************************************************************************)
Wrappers ==
  [x \in NativeHandles |->
     IF x = "ctx" THEN context.st
     ELSE IF x \in HandleSlots THEN handles[x].st
     ELSE IF x \in ImageSlots THEN images[x].st
     ELSE encoders[x].st]

C1_ReleasedExactlyOnce ==
  \A x \in NativeHandles :
    /\ nrel[x] = (IF Wrappers[x] = "destroyed" THEN 1 ELSE 0)
    /\ (x \in nlive) = (Wrappers[x] = "live")

C1_Witness ==
  /\ context.st = "destroyed"
  /\ \E h \in HandleSlots : handles[h].st = "destroyed"
  /\ \E i \in ImageSlots : images[i].st = "destroyed"
  /\ \E e \in EncoderSlots : encoders[e].st = "destroyed"

(***************************************************************************)
(* C2.  While a HeifPlane exists, the native image of the HeifImage it was *)
(* made from has not been released, in whatever order the host drops the   *)
(* image object and the planes; the image is released only when the host   *)
(* object and all planes are gone.                                         *)
(***************************************************************************)
C2_ImageOutlivesPlanes ==
  /\ \A p \in PlaneSlots :
       planes[p].st = "live" =>
         /\ images[planes[p].img].st = "live"
         /\ nrel[images[planes[p].img].ptr] = 0
         /\ images[planes[p].img].ptr \in nlive
  /\ \A i \in ImageSlots :
       images[i].st = "destroyed" =>
         /\ ~images[i].pyref
         /\ \A p \in PlaneSlots : ~(planes[p].st = "live" /\ planes[p].img = i)

C2_Witness ==
  \E p, q \in PlaneSlots :
    /\ planes[p].st = "live" /\ planes[q].st = "destroyed"
    /\ planes[q].img = planes[p].img
    /\ ~images[planes[p].img].pyref

(***************************************************************************)
(* C5.  The native calls of read_from_file, read_from_memory,              *)
(* write_to_file, write_to_bytes, decode and encode_image run with the     *)
(* host's lock released; the copy of read_from_memory's argument is taken  *)
(* with the lock held, and the handler ends (returning its value or its    *)
(* exception to the host) with the lock held again, also after a failed    *)
(* native call.                                                            *)
(***************************************************************************)
ReleasingOps ==
  {"read_from_file", "read_from_memory", "write_to_file", "write_to_bytes",
   "decode", "encode_image"}

C5_LockReleasedAroundNative ==
  /\ \A e \in ev :
       e.op \in ReleasingOps =>
         /\ e.kind = "native" => ~e.locked
         /\ e.kind \in {"copy", "host"} => e.locked
  /\ \A t \in Threads : pc[t] \in {"native", "ret"} => gil # t

C5_Witness ==
  \E e \in ev :
    /\ e.kind = "host" /\ e.op = "encode_image"
    /\ e.exc.type = "HeifError" /\ e.locked

(***************************************************************************)
(* C6.  For every native result record the check raises a failure into the *)
(* host exactly when code is not Ok, and that failure carries the record's *)
(* code, subcode and message; when code is Ok nothing is raised.           *)
(***************************************************************************)
C6_FailureCarriesRecord ==
  probe.done =>
    IF probe.in.code # "Ok"
    THEN /\ probe.host.type = "HeifError"
         /\ probe.host.code = probe.in.code
         /\ probe.host.subcode = probe.in.subcode
         /\ probe.host.message = probe.in.message
    ELSE probe.host = NoHostExc

(***************************************************************************)
(* C7.  Whenever a native call of an operation reports failure (an error   *)
(* record that is not Ok, a null result, or a fill call that wrote fewer   *)
(* ids than the buffer was sized for) the operation fails with HeifError   *)
(* instead of going on with the call's output.                             *)
(***************************************************************************)
NativeFailed(e) ==
  \/ e.kind = "failed"
  \/ e.kind = "fill" /\ e.val[2] < e.val[1]

C7_EveryNativeResultChecked ==
  \A e \in ev :
    NativeFailed(e) =>
      \E x \in ev : x.kind = "host" /\ x.op = e.op /\ x.exc.type = "HeifError"

(***************************************************************************)
(* C8.  get_metadata_block_type(id) and get_metadata_block(id) fail with   *)
(* HeifError of code Invalid_input when the handle has no metadata block   *)
(* of that id.                                                             *)
(***************************************************************************)
C8_UnknownIdIsInvalidInput ==
  \A e \in ev :
    (e.kind = "failed" /\ e.op \in {"get_metadata_block_type", "get_metadata_block"})
    => \E x \in ev :
         /\ x.kind = "host" /\ x.op = e.op
         /\ x.exc.type = "HeifError" /\ x.exc.code = "Invalid_input"

(***************************************************************************)
(* C9.  get_list_of_top_level_image_IDs returns as many ids as the native  *)
(* count query reports, each the id of a top-level image; for a container  *)
(* with one image it returns that one id, and the handle get_image_handle  *)
(* gives for it has the width and height of the primary image handle.      *)
(***************************************************************************)
C9_ListMatchesCount ==
  \A e \in ev :
    (e.kind = "host" /\ e.op = "get_list_of_top_level_image_IDs") =>
      /\ Len(e.val) = Len(nctx.images)
      /\ \A k \in DOMAIN e.val : e.val[k] \in Range(nctx.images)
      /\ Len(nctx.images) = 1 =>
           /\ e.val = nctx.images
           /\ \A h, g \in HandleSlots :
                (/\ handles[h].st = "live" /\ handles[h].via = "get_image_handle"
                 /\ handles[h].item = e.val[1]
                 /\ handles[g].st = "live"
                 /\ handles[g].via = "get_primary_image_handle")
                => (get_width(h) = get_width(g) /\ get_height(h) = get_height(g))

C9_Witness ==
  /\ Len(nctx.images) = 1
  /\ \E e \in ev : e.kind = "host" /\ e.op = "get_list_of_top_level_image_IDs"
                   /\ Len(e.val) = 1
  /\ \E h, g \in HandleSlots :
       /\ handles[h].st = "live" /\ handles[h].via = "get_image_handle"
       /\ handles[g].st = "live" /\ handles[g].via = "get_primary_image_handle"

(***************************************************************************)
(* C10.  After the host wrote pixels through a writeable view of a         *)
(* channel, every read-only view of that channel reads the written pixels. *)
(***************************************************************************)
C10_ReadOnlyViewSeesWrite ==
  \A p \in PlaneSlots :
    (/\ planes[p].st = "live" /\ planes[p].buf # NoBuffer /\ planes[p].buf.readonly
     /\ lastw[planes[p].img][planes[p].channel] # <<>>)
    => read_pixels(p) = lastw[planes[p].img][planes[p].channel]

C10_Witness ==
  \E p, q \in PlaneSlots :
    /\ planes[p].st = "live" /\ planes[p].buf # NoBuffer /\ planes[p].buf.readonly
    /\ planes[q].st = "live" /\ planes[q].buf # NoBuffer /\ ~planes[q].buf.readonly
    /\ planes[q].img = planes[p].img /\ planes[q].channel = planes[p].channel
    /\ lastw[planes[p].img][planes[p].channel] = <<1>>
    /\ read_pixels(p) = <<1>>

(***************************************************************************)
(* C11.  For a plane of height H, width W, element size E, native row      *)
(* stride S and channel multiplicity C the descriptor has, for C = 1,      *)
(* 2 dimensions, shape (H, W), strides (S, E); for C > 1, 3 dimensions,    *)
(* shape (H, W, C), strides (S, C*E, E).  S is the stride libheif          *)
(* reported, also when the row is padded.                                  *)
(***************************************************************************)
C11_DescriptorLayout ==
  probe.done =>
    LET x == probe.in
        d == probe.out
        E == d.itemsize
        C == num_channels(x.chroma)
    IN /\ E = bytes_per_channel(x.bpp)
       /\ C = 1 => /\ d.ndim = 2
                   /\ d.shape = <<x.height, x.width>>
                   /\ d.strides = <<x.stride, E>>
       /\ C > 1 => /\ d.ndim = 3
                   /\ d.shape = <<x.height, x.width, C>>
                   /\ d.strides = <<x.stride, C * E, E>>

C11_Witness ==
  /\ probe.done
  /\ probe.in.chroma = "InterleavedRGB"
  /\ probe.in.stride > probe.in.width * 3 * probe.out.itemsize
  /\ probe.out.ndim = 3
  /\ probe.out.strides[1] = probe.in.stride

(***************************************************************************)
(* C12.  The channel multiplicity of a descriptor depends on the chroma    *)
(* only: 3 for InterleavedRGB, 4 for InterleavedRGBA and the four          *)
(* InterleavedRRGGBB(AA)_(BE|LE) chromas, 1 for every other chroma.        *)
(***************************************************************************)
Multiplicity(d) == IF d.ndim = 3 THEN d.shape[3] ELSE 1

C12_MultiplicityFromChroma ==
  probe.done =>
    Multiplicity(probe.out) =
      (IF probe.in.chroma = "InterleavedRGB" THEN 3
       ELSE IF probe.in.chroma \in
                 {"InterleavedRGBA", "InterleavedRRGGBB_BE", "InterleavedRRGGBB_LE",
                  "InterleavedRRGGBBAA_BE", "InterleavedRRGGBBAA_LE"} THEN 4
       ELSE 1)

C12_Witness ==
  /\ probe.done
  /\ probe.in.chroma = "InterleavedRRGGBB_LE"
  /\ Multiplicity(probe.out) = 4

(***************************************************************************)
(* C13.  The read-only flag of every descriptor a HeifPlane yields is the  *)
(* negation of the writeable argument the plane was created with, however  *)
(* often a descriptor is requested.                                        *)
(***************************************************************************)
C13_ReadOnlyMirrorsWriteable ==
  \A p \in PlaneSlots :
    (planes[p].st = "live" /\ planes[p].buf # NoBuffer)
    => planes[p].buf.readonly = ~planes[p].writeable

C13_Witness ==
  \E p, q \in PlaneSlots :
    /\ planes[p].st = "live" /\ ~planes[p].writeable
    /\ planes[p].buf # NoBuffer /\ planes[p].buf.readonly
    /\ planes[q].st = "live" /\ planes[q].writeable
    /\ planes[q].buf # NoBuffer /\ ~planes[q].buf.readonly
    /\ \E e \in ev : e.kind = "host" /\ e.op = "get_buffer_info" /\ e.exc.type = "none"

(***************************************************************************)
(* C14.  get_plane computes the view's pointer and layout when the view is *)
(* constructed and fails with runtime_error "Failed to get image plane     *)
(* data" when libheif has no plane pointer for the channel: every          *)
(* HeifPlane that exists has its descriptor and a plane behind it.         *)
(***************************************************************************)
C14_GetPlaneChecksPointer ==
  /\ \A p \in PlaneSlots :
       planes[p].st = "live" =>
         /\ planes[p].buf # NoBuffer
         /\ plane_data(planes[p].img, planes[p].channel, planes[p].writeable) # NullPtr
  /\ \A e \in ev :
       (e.kind = "host" /\ e.op = "get_buffer_info") => e.exc.type = "none"

(***************************************************************************)
(* C15.  A writeable HeifPlane and any other HeifPlane of the same channel *)
(* of the same HeifImage never exist at the same time.                     *)
(***************************************************************************)
C15_WriteableViewIsExclusive ==
  \A p, q \in PlaneSlots :
    (/\ p # q
     /\ planes[p].st = "live" /\ planes[q].st = "live"
     /\ planes[p].img = planes[q].img /\ planes[p].channel = planes[q].channel)
    => (~planes[p].writeable /\ ~planes[q].writeable)

(***************************************************************************)
(* C16.  Constructing a HeifEncoder for a format no encoder plugin is      *)
(* registered for fails with HeifError of code Unsupported_feature, and    *)
(* leaves no encoder object and no encoder handle behind.                  *)
(***************************************************************************)
C16_UnregisteredFormatUnsupportedFeature ==
  \A e \in ev :
    (e.kind = "host" /\ e.op = "HeifEncoder" /\ e.exc.type # "none") =>
      /\ e.exc.type = "HeifError" /\ e.exc.code = "Unsupported_feature"
      /\ \A x \in EncoderSlots :
           /\ (x \in nlive) = (encoders[x].st = "live")
           /\ nrel[x] = (IF encoders[x].st = "destroyed" THEN 1 ELSE 0)

C18_NativeReadsStoredCopy ==
  /\ \A t \in Threads :
       (pc[t] \in {"native", "ret"} /\ frame[t].op = "read_from_memory") =>
         context.memory_data = calls.data
  /\ \A e \in ev :
       (e.kind = "native" /\ e.op = "read_from_memory") =>
         e.val = context.memory_data
  /\ nctx.src \in {"none", "memory_data"}

C18_Witness ==
  /\ \E t \in Threads :
       /\ pc[t] = "ret" /\ frame[t].op = "read_from_memory"
       /\ frame[t].err.code = "Ok"
  /\ context.memory_data # <<>> /\ context.memory_data = calls.data
  /\ nctx.src = "memory_data"

(***************************************************************************)
(* C19.  Once memory_data has been handed to libheif it is not replaced,   *)
(* modified or freed for as long as the native context exists.             *)
(***************************************************************************)
C19_StoredBufferStable ==
  [][(calls.native >= 1 /\ context.ctx \in nlive')
       => context'.memory_data = context.memory_data]_vars

(***************************************************************************)
(* C20.  After read_from_memory, memory_data is not freed while a          *)
(* HeifImageHandle taken from that HeifContext exists.                     *)
(***************************************************************************)
C20_BufferOutlivesHandles ==
  \A h \in HandleSlots :
    (handles[h].st = "live" /\ nctx.src = "memory_data") => ~Dangling

(***************************************************************************)
(* C21.  Of two threads calling read_from_memory with non-empty bytes on   *)
(* the same HeifContext, exactly one reaches the native read; every other  *)
(* call fails with "Context already initialized with memory data", also    *)
(* while the first native read is running with the lock released.          *)
(***************************************************************************)
InNativeRead == {t \in Threads : pc[t] = "native" /\ frame[t].op = "read_from_memory"}

C21_OneCallerReachesNativeRead ==
  /\ Cardinality(InNativeRead) + calls.native <= 1
  /\ (calls.made > 0) <=> (context.memory_data # <<>>)
  /\ \A e \in ev :
       (e.op = "read_from_memory" /\ e.kind = "host" /\ e.val # <<>>) =>
         /\ e.exc = runtime_error("Context already initialized with memory data")
         /\ e.val[1] > 1

C21_Witness ==
  /\ \E t \in Threads :
       /\ pc[t] = "native" /\ frame[t].op = "read_from_memory"
       /\ gil \in Threads \ {t}
  /\ \E e \in ev :
       /\ e.op = "read_from_memory" /\ e.kind = "host"
       /\ e.exc = runtime_error("Context already initialized with memory data")

(***************************************************************************)
(* C22.  encode_image with a non-empty preset sets the parameter "preset"  *)
(* to the argument before heif_context_encode_image is invoked, whatever   *)
(* set_parameter stored earlier; when that set fails its error is the      *)
(* result, the native encode is not invoked and the container gains no     *)
(* image; with an empty preset the call sets no parameter.                 *)
(***************************************************************************)
C22_PresetSetBeforeEncode ==
  [][\A t \in Threads :
       (pc[t] = "native" /\ frame[t].op = "encode_image" /\ pc'[t] = "ret") =>
         LET e == frame[t].arg
             preset == frame[t].str
             encoded == {x \in ev' : x.kind = "native" /\ x.op = "encode_image"}
             set == {x \in ev' : x.kind = "native" /\ x.op = "set_parameter"}
         IN /\ (preset = "") => (set = {} /\ encoders' = encoders)
            /\ (preset # "") => \A x \in encoded : x.val = <<preset>>
            /\ (preset # "") => \E x \in set : x.val = <<"preset", preset>>
            /\ (preset # "" /\ NativeSetParameter("preset", preset).code # "Ok") =>
                 /\ frame'[t].err = NativeSetParameter("preset", preset)
                 /\ encoded = {}
                 /\ nctx' = nctx /\ handles' = handles
            /\ (preset = "" \/ NativeSetParameter("preset", preset).code = "Ok") =>
                 encoded # {}]_vars

C22_Witness ==
  \E t \in Threads :
    /\ pc[t] = "ret" /\ frame[t].op = "encode_image"
    /\ frame[t].str = "slow" /\ frame[t].err.code = "Ok"
    /\ \E x \in ev : x.kind = "native" /\ x.op = "encode_image" /\ x.val = <<"slow">>
    /\ \E x \in ev : x.kind = "native" /\ x.op = "set_parameter"

(***************************************************************************)
(* C23.  An encode_image call, with or without a preset and whether it     *)
(* succeeds or fails, leaves the configuration of the HeifEncoder as it    *)
(* was before the call.                                                    *)
(***************************************************************************)
C23_EncodeLeavesConfiguration ==
  [][\A t \in Threads :
       (pc[t] = "native" /\ frame[t].op = "encode_image" /\ pc'[t] = "ret") =>
         encoders' = encoders]_vars

(***************************************************************************)
(* C24.  writer_write either appends the chunk and returns Ok or, when the *)
(* allocation fails, returns Memory_allocation_error; write_to_bytes       *)
(* returns the concatenation, in call order, of all chunks libheif pushed, *)
(* or raises that error and returns no bytes.                              *)
(***************************************************************************)
RECURSIVE Concat(_)
Concat(chunks) == IF chunks = <<>> THEN <<>> ELSE Head(chunks) \o Concat(Tail(chunks))

AllocationError ==
  Err("Memory_allocation_error", "Unspecified", "Memory allocation failed during write")

C24_WriterNeverThrows ==
  /\ \A t \in Threads :
       (pc[t] = "ret" /\ frame[t].op = "write_to_bytes") =>
         /\ frame[t].err \in {ErrOk, AllocationError}
         /\ (frame[t].err = ErrOk) => (frame[t].val = Concat(NativeChunks(nctx)))
  /\ \A e \in ev :
       (e.kind = "host" /\ e.op = "write_to_bytes") =>
         IF e.exc = NoExc THEN e.val = Concat(NativeChunks(nctx))
         ELSE e.exc = HeifError(AllocationError) /\ e.val = <<>>

C24_Witness ==
  \E t \in Threads :
    /\ pc[t] = "ret" /\ frame[t].op = "write_to_bytes"
    /\ frame[t].err = AllocationError
    /\ frame[t].val # <<>>
    /\ Len(nctx.images) >= 1

(***************************************************************************)
(* C25.  For every bit depth b the element size of the descriptor is       *)
(* (b + 7) div 8, and the format code agrees with it: uint8 exactly when   *)
(* the element size is 1 byte, uint16 exactly when it is 2 bytes.          *)
(***************************************************************************)
C25_FormatMatchesElementSize ==
  probe.done =>
    /\ probe.out.itemsize = (probe.in.bpp + 7) \div 8
    /\ (probe.out.format = "B") <=> (probe.out.itemsize = 1)
    /\ (probe.out.format = "H") <=> (probe.out.itemsize = 2)

(***************************************************************************)
(* C26.  get_encoder_descriptors returns one record per descriptor the     *)
(* count query reports, with no fill call for a count of 0; and reading a  *)
(* field of a returned HeifEncoderDescriptor, or constructing a            *)
(* HeifEncoder from it, hands libheif no address obtained during the       *)
(* enumeration.                                                            *)
(***************************************************************************)
C26_DescriptorsAreCopiedOut ==
  /\ \A e \in ev :
       (e.kind = "host" /\ e.op = "get_encoder_descriptors") =>
         /\ e.val[2] = e.val[1] /\ Len(descriptors) = e.val[1]
         /\ (e.val[1] = 0) =>
              ~\E f \in ev : f.kind = "native" /\ f.val = <<"fill">>
  /\ \A e \in ev :
       (e.kind = "native" /\ e.op \in DescriptorFields \cup {"HeifEncoder"}) =>
         e.val = <<>>

====
